---- MODULE Spec2Model ----
(***************************************************************************)
(* The handshake transcript hash of rustls (rustls/src/hash_hs.rs).        *)
(*                                                                         *)
(* HandshakeHashBuffer collects the encodings of the handshake messages    *)
(* while the hash algorithm is unknown; start_hash consumes it and yields  *)
(* a HandshakeHash, which hashes incrementally and, for client auth, also  *)
(* keeps the bytes in a buffer.                                            *)
(*                                                                         *)
(* Bytes are modelled as short strings, byte strings as sequences of them. *)
(* The digest primitive (ring::digest) is modelled as an ideal hash: a     *)
(* context holds its algorithm and the input it has absorbed, and the      *)
(* digest of an input is the input bracketed by the algorithm's name and   *)
(* an end marker, so two digests are equal exactly when algorithm and      *)
(* input are.  The length of a digest is not modelled.                     *)
(*                                                                         *)
(* Two runs of the same exchange are modelled side by side: the exchange   *)
(* itself and a twin.  The caller's transcript operations (messages,       *)
(* start_hash, rollups) act on both; the client-auth retention operations  *)
(* act on one of them at a time, so the two differ only in their           *)
(* retention operations.                                                   *)
(***************************************************************************)
EXTENDS Integers, Sequences, FiniteSets, TLC

\* Bounds of the model.
MaxFed == 2        \* appends to the transcript per exchange: handshake
                   \* messages, raw slices and synthetic rollup messages
MaxPathUpdates == 2  \* updates that follow a retry when the two retry
                     \* paths are compared

\* The digest algorithms an exchange can negotiate.
Algorithms == {"SHA256", "SHA384"}

\* Byte strings passed to update_raw.
Slices == {<<"h">>, <<"w">>}

\* Byte strings passed as `extra` to get_hash_given.
Extras == {<<>>, <<"x">>}

\* Messages: the payload kind and, for a handshake payload, its encoding.
Messages ==
    { [payload |-> "Handshake", encoding |-> <<"h">>],
      [payload |-> "Handshake", encoding |-> <<"w">>],
      [payload |-> "ChangeCipherSpec", encoding |-> <<"c">>] }

\* hs.get_encoding() of a handshake payload.
get_encoding(m) == m.encoding

(***************************************************************************)
(* ring::digest                                                            *)
(***************************************************************************)
\* digest::Context::new(alg)
Context_new(alg) == [algorithm |-> alg, input |-> <<>>]

\* ctx.update(data)
Context_update(ctx, data) == [ctx EXCEPT !.input = @ \o data]

\* ctx.finish(), and digest.as_ref() of its result
Context_finish(ctx) == <<ctx.algorithm>> \o ctx.input \o <<"end">>

\* The digest of `data` under `alg`: a new context, one update, finish.
Digest(alg, data) == Context_finish(Context_update(Context_new(alg), data))

\* HandshakeMessagePayload::build_handshake_hash(hash).get_encoding():
\* a message_hash handshake message whose payload is the digest.
build_handshake_hash(hash) == <<"message_hash">> \o hash

(***************************************************************************)
(* HandshakeHashBuffer                                                     *)
(***************************************************************************)
HandshakeHashBuffer_new == [buffer |-> <<>>, client_auth_enabled |-> FALSE]

HandshakeHashBuffer_set_client_auth_enabled(self) ==
    [self EXCEPT !.client_auth_enabled = TRUE]

HandshakeHashBuffer_add_message(self, m) ==
    IF m.payload = "Handshake"
    THEN [self EXCEPT !.buffer = @ \o get_encoding(m)]
    ELSE self

HandshakeHashBuffer_update_raw(self, buf) ==
    [self EXCEPT !.buffer = @ \o buf]

\* Mutant: `extra` is left out of the hash.
buffer_get_hash_given_without_extra(self, hash, extra) ==
    [self |-> self,
     result |-> Context_finish(Context_update(Context_new(hash), self.buffer))]

\* &self: the accumulator handed back is the one passed in.
HandshakeHashBuffer_get_hash_given(self, hash, extra) ==
    LET ctx0 == Context_new(hash)
        ctx1 == Context_update(ctx0, self.buffer)
        ctx2 == Context_update(ctx1, extra)
    IN  [self |-> self, result |-> Context_finish(ctx2)]

\* Mutant: the new context is not fed the buffered bytes.
start_hash_without_buffer(self, alg) ==
    [ctx |-> Context_new(alg),
     client_auth_enabled |-> self.client_auth_enabled,
     buffer |-> IF ~self.client_auth_enabled THEN <<>> ELSE self.buffer]

\* Mutant: the buffer is kept whatever the flag says.
start_hash_always_keeps(self, alg) ==
    [ctx |-> Context_update(Context_new(alg), self.buffer),
     client_auth_enabled |-> self.client_auth_enabled,
     buffer |-> self.buffer]

\* Mutant: the buffer is discarded whatever the flag says.
start_hash_always_discards(self, alg) ==
    [ctx |-> Context_update(Context_new(alg), self.buffer),
     client_auth_enabled |-> self.client_auth_enabled,
     buffer |-> <<>>]

HandshakeHashBuffer_start_hash(self, alg) ==
    LET ctx == Context_update(Context_new(alg), self.buffer)
        buffer == IF ~self.client_auth_enabled THEN <<>> ELSE self.buffer
    IN  [ctx |-> ctx,
         client_auth_enabled |-> self.client_auth_enabled,
         buffer |-> buffer]

(***************************************************************************)
(* HandshakeHash                                                           *)
(***************************************************************************)
\* Mutant: the buffer is discarded but the flag stays set.
abandon_client_auth_keeps_flag(self) == [self EXCEPT !.buffer = <<>>]

HandshakeHash_abandon_client_auth(self) ==
    [self EXCEPT !.client_auth_enabled = FALSE, !.buffer = <<>>]

\* Mutant: the bytes are buffered whatever the flag says.
update_raw_always_buffers(self, buf) ==
    [self EXCEPT !.ctx = Context_update(@, buf), !.buffer = @ \o buf]

\* Mutant: the bytes are hashed or buffered, not both.
update_raw_hash_or_buffer(self, buf) ==
    IF self.client_auth_enabled
    THEN [self EXCEPT !.buffer = @ \o buf]
    ELSE [self EXCEPT !.ctx = Context_update(@, buf)]

HandshakeHash_update_raw(self, buf) ==
    [self EXCEPT !.ctx = Context_update(@, buf),
                 !.buffer = IF self.client_auth_enabled THEN @ \o buf ELSE @]

\* Mutant: every message is hashed, whatever its payload.
add_message_any_payload(self, m) ==
    HandshakeHash_update_raw(self, get_encoding(m))

HandshakeHash_add_message(self, m) ==
    IF m.payload = "Handshake"
    THEN HandshakeHash_update_raw(self, get_encoding(m))
    ELSE self

\* Mutant: `extra` is fed to the live context, not to a clone of it.
get_hash_given_in_place(self, extra) ==
    LET ctx == Context_update(self.ctx, extra)
    IN  [self |-> [self EXCEPT !.ctx = ctx], result |-> Context_finish(ctx)]

HandshakeHash_get_hash_given(self, extra) ==
    LET ctx == Context_update(self.ctx, extra)
    IN  [self |-> self, result |-> Context_finish(ctx)]

\* Mutant: the new accumulator starts with retention off.
into_hrr_buffer_dropping_flag(self) ==
    [client_auth_enabled |-> FALSE,
     buffer |-> build_handshake_hash(Context_finish(self.ctx))]

\* Mutant: the retained bytes are carried into the new accumulator.
into_hrr_buffer_carrying_buffer(self) ==
    LET old_hash == Context_finish(self.ctx)
        old_handshake_hash_msg == build_handshake_hash(old_hash)
    IN  [client_auth_enabled |-> self.client_auth_enabled,
         buffer |-> self.buffer \o old_handshake_hash_msg]

HandshakeHash_into_hrr_buffer(self) ==
    LET old_hash == Context_finish(self.ctx)
        old_handshake_hash_msg == build_handshake_hash(old_hash)
    IN  [client_auth_enabled |-> self.client_auth_enabled,
         buffer |-> old_handshake_hash_msg]

\* Mutant: the context is restarted but the synthetic message is not fed.
rollup_for_hrr_without_message(self) ==
    [self EXCEPT !.ctx = Context_new(self.ctx.algorithm)]

\* Mutant: the fresh context is created for a fixed algorithm.
rollup_for_hrr_with_fixed_algorithm(self) ==
    LET old_hash == Context_finish(self.ctx)
        old_handshake_hash_msg == build_handshake_hash(old_hash)
        replaced == [self EXCEPT !.ctx = Context_new("SHA256")]
    IN  HandshakeHash_update_raw(replaced, old_handshake_hash_msg)

\* Mutant: the synthetic message is fed to the old context, which is
\* not replaced.
rollup_for_hrr_keeping_context(self) ==
    LET old_hash == Context_finish(self.ctx)
        old_handshake_hash_msg == build_handshake_hash(old_hash)
    IN  HandshakeHash_update_raw(self, old_handshake_hash_msg)

\* Mutant: the synthetic message is fed to the context directly, not
\* through update_raw.
rollup_for_hrr_bypassing_update_raw(self) ==
    LET old_hash == Context_finish(self.ctx)
        old_handshake_hash_msg == build_handshake_hash(old_hash)
    IN  [self EXCEPT !.ctx = Context_update(Context_new(self.ctx.algorithm),
                                            old_handshake_hash_msg)]

HandshakeHash_rollup_for_hrr(self) ==
    LET old_ctx == self.ctx
        replaced == [self EXCEPT !.ctx = Context_new(old_ctx.algorithm)]
        old_hash == Context_finish(old_ctx)
        old_handshake_hash_msg == build_handshake_hash(old_hash)
    IN  HandshakeHash_update_raw(replaced, old_handshake_hash_msg)

HandshakeHash_get_current_hash(self) ==
    [self |-> self, result |-> Context_finish(self.ctx)]

\* Mutant: the buffer is copied out, not taken.
take_handshake_buf_cloning(self, debug) ==
    IF debug /\ ~self.client_auth_enabled
    THEN [self |-> self, result |-> <<>>, panicked |-> TRUE]
    ELSE [self |-> self, result |-> self.buffer, panicked |-> FALSE]

\* Mutant: the precondition is not asserted.
take_handshake_buf_unchecked(self, debug) ==
    [self |-> [self EXCEPT !.buffer = <<>>],
     result |-> self.buffer,
     panicked |-> FALSE]

\* debug_assert!(self.client_auth_enabled) is compiled in only when the
\* build has debug assertions; `debug` says whether this build has them.
HandshakeHash_take_handshake_buf(self, debug) ==
    IF debug /\ ~self.client_auth_enabled
    THEN [self |-> self, result |-> <<>>, panicked |-> TRUE]
    ELSE [self |-> [self EXCEPT !.buffer = <<>>],
          result |-> self.buffer,
          panicked |-> FALSE]

HandshakeHash_algorithm(self) == self.ctx.algorithm

(***************************************************************************)
(* The exchange                                                            *)
(***************************************************************************)
VARIABLES
    debug_assertions,  \* whether the build checks debug_assert!
    phase,             \* "buffering", "hashing" or "panicked"
    hhb,               \* the HandshakeHashBuffer, while buffering
    hh,                \* the HandshakeHash, while hashing
    twin_hhb,          \* the twin's HandshakeHashBuffer
    twin_hh,           \* the twin's HandshakeHash
    ret,               \* what the last call on hhb / hh returned, if it
                       \*   returned a digest, a buffer or an algorithm
    alg_given,         \* history: the algorithm last given to start_hash
    fed_buffer,        \* history: the bytes the HandshakeHashBuffer was fed
    fed_hash,          \* history: the bytes the HandshakeHash was fed
    nfed,              \* history: number of appends to the transcript
    rollups,           \* history: rollup_for_hrr / into_hrr_buffer calls
    taken,             \* history: take_handshake_buf was called on hh
    abandoned,         \* history: abandon_client_auth was called on hh
    ever_abandoned,    \* history: abandon_client_auth was called on some
                       \*   HandshakeHash of the exchange
    fed_enabled,       \* history: the part of the context's input that
                       \*   was fed while retention was enabled
    since_take         \* history: the bytes appended since the accumulator
                       \*   was created or the buffer was last taken

entities == <<hhb, hh>>
twins == <<twin_hhb, twin_hh>>
history == <<alg_given, fed_buffer, fed_hash, nfed, rollups, taken, abandoned,
             ever_abandoned, fed_enabled, since_take>>
vars == <<debug_assertions, phase, hhb, hh, twin_hhb, twin_hh, ret,
          alg_given, fed_buffer, fed_hash, nfed, rollups, taken, abandoned,
          ever_abandoned, fed_enabled, since_take>>

\* The transcript of the exchange: what was fed before start_hash followed
\* by what was fed after it.  A rollup, in place or through a new
\* accumulator, restarts it with the synthetic message.
Transcript == fed_buffer \o fed_hash

\* The value of a field that holds no entity (moved out, or not yet built).
NoHashBuffer == [buffer |-> <<>>, client_auth_enabled |-> FALSE]
NoHash == [ctx |-> Context_new("none"),
           client_auth_enabled |-> FALSE,
           buffer |-> <<>>]

\* A call that returned the byte string `value`, an add_message call with
\* a message of the given payload kind, and any other call.
Call(op, value) == [op |-> op, payload |-> "none", value |-> value]
Added(m) == [op |-> "add_message", payload |-> m.payload, value |-> <<>>]
NoReturn == Call("none", <<>>)

Init ==
    /\ debug_assertions \in BOOLEAN
    /\ phase = "buffering"
    /\ hhb = HandshakeHashBuffer_new
    /\ hh = NoHash
    /\ twin_hhb = HandshakeHashBuffer_new
    /\ twin_hh = NoHash
    /\ ret = NoReturn
    /\ alg_given = "none"
    /\ fed_buffer = <<>>
    /\ fed_hash = <<>>
    /\ nfed = 0
    /\ rollups = 0
    /\ taken = FALSE
    /\ abandoned = FALSE
    /\ ever_abandoned = FALSE
    /\ fed_enabled = <<>>
    /\ since_take = <<>>

\* History of an append of `buf` while the retention flag is `enabled`.
Appended(buf, enabled) ==
    /\ nfed' = nfed + 1
    /\ IF phase = "buffering"
       THEN fed_buffer' = fed_buffer \o buf /\ UNCHANGED fed_hash
       ELSE fed_hash' = fed_hash \o buf /\ UNCHANGED fed_buffer
    /\ fed_enabled' = IF enabled THEN fed_enabled \o buf ELSE fed_enabled
    /\ since_take' = since_take \o buf

(***************************************************************************)
(* Operations on the HandshakeHashBuffer                                   *)
(***************************************************************************)
SetClientAuthEnabled ==
    /\ phase = "buffering"
    /\ hhb' = HandshakeHashBuffer_set_client_auth_enabled(hhb)
    /\ ret' = NoReturn
    /\ UNCHANGED <<debug_assertions, phase, hh, twins, history>>

BufferAddMessage(m) ==
    /\ phase = "buffering"
    /\ m.payload = "Handshake" => nfed < MaxFed
    /\ hhb' = HandshakeHashBuffer_add_message(hhb, m)
    /\ twin_hhb' = HandshakeHashBuffer_add_message(twin_hhb, m)
    /\ ret' = Added(m)
    /\ IF m.payload = "Handshake"
       THEN Appended(get_encoding(m), hhb.client_auth_enabled)
       ELSE UNCHANGED <<nfed, fed_buffer, fed_hash, fed_enabled, since_take>>
    /\ UNCHANGED <<debug_assertions, phase, hh, twin_hh, alg_given, rollups,
                   taken, abandoned, ever_abandoned>>

BufferUpdateRaw(buf) ==
    /\ phase = "buffering"
    /\ nfed < MaxFed
    /\ hhb' = HandshakeHashBuffer_update_raw(hhb, buf)
    /\ twin_hhb' = HandshakeHashBuffer_update_raw(twin_hhb, buf)
    /\ ret' = NoReturn
    /\ Appended(buf, hhb.client_auth_enabled)
    /\ UNCHANGED <<debug_assertions, phase, hh, twin_hh, alg_given, rollups,
                   taken, abandoned, ever_abandoned>>

BufferGetHashGiven(hash, extra) ==
    /\ phase = "buffering"
    /\ LET g == HandshakeHashBuffer_get_hash_given(hhb, hash, extra)
       IN  /\ hhb' = g.self
           /\ ret' = Call("get_hash_given", g.result)
    /\ UNCHANGED <<debug_assertions, phase, hh, twins, history>>

\* Mutant: start_hash borrows the accumulator and leaves it in place.
StartHashBorrowing(alg) ==
    /\ phase = "buffering"
    /\ phase' = "hashing"
    /\ hh' = HandshakeHashBuffer_start_hash(hhb, alg)
    /\ twin_hh' = HandshakeHashBuffer_start_hash(twin_hhb, alg)
    /\ ret' = NoReturn
    /\ alg_given' = alg
    /\ UNCHANGED <<debug_assertions, hhb, twin_hhb, fed_buffer, fed_hash,
                   nfed, rollups, taken, abandoned, ever_abandoned,
                   fed_enabled, since_take>>

StartHash(alg) ==
    /\ phase = "buffering"
    /\ phase' = "hashing"
    /\ hh' = HandshakeHashBuffer_start_hash(hhb, alg)
    /\ hhb' = NoHashBuffer
    /\ twin_hh' = HandshakeHashBuffer_start_hash(twin_hhb, alg)
    /\ twin_hhb' = NoHashBuffer
    /\ ret' = NoReturn
    /\ alg_given' = alg
    /\ UNCHANGED <<debug_assertions, fed_buffer, fed_hash, nfed, rollups,
                   taken, abandoned, ever_abandoned, fed_enabled,
                   since_take>>

(***************************************************************************)
(* Operations on the HandshakeHash                                         *)
(***************************************************************************)
AbandonClientAuth ==
    /\ phase = "hashing"
    /\ hh' = HandshakeHash_abandon_client_auth(hh)
    /\ ret' = NoReturn
    /\ abandoned' = TRUE
    /\ ever_abandoned' = TRUE
    /\ UNCHANGED <<debug_assertions, phase, hhb, twins, alg_given,
                   fed_buffer, fed_hash, nfed, rollups, taken, fed_enabled,
                   since_take>>

AddMessage(m) ==
    /\ phase = "hashing"
    /\ m.payload = "Handshake" => nfed < MaxFed
    /\ hh' = HandshakeHash_add_message(hh, m)
    /\ twin_hh' = HandshakeHash_add_message(twin_hh, m)
    /\ ret' = Added(m)
    /\ IF m.payload = "Handshake"
       THEN Appended(get_encoding(m), hh.client_auth_enabled)
       ELSE UNCHANGED <<nfed, fed_buffer, fed_hash, fed_enabled, since_take>>
    /\ UNCHANGED <<debug_assertions, phase, hhb, twin_hhb, alg_given,
                   rollups, taken, abandoned, ever_abandoned>>

UpdateRaw(buf) ==
    /\ phase = "hashing"
    /\ nfed < MaxFed
    /\ hh' = HandshakeHash_update_raw(hh, buf)
    /\ twin_hh' = HandshakeHash_update_raw(twin_hh, buf)
    /\ ret' = NoReturn
    /\ Appended(buf, hh.client_auth_enabled)
    /\ UNCHANGED <<debug_assertions, phase, hhb, twin_hhb, alg_given,
                   rollups, taken, abandoned, ever_abandoned>>

GetHashGiven(extra) ==
    /\ phase = "hashing"
    /\ LET g == HandshakeHash_get_hash_given(hh, extra)
       IN  /\ hh' = g.self
           /\ ret' = Call("get_hash_given", g.result)
    /\ UNCHANGED <<debug_assertions, phase, hhb, twins, history>>

GetCurrentHash ==
    /\ phase = "hashing"
    /\ LET g == HandshakeHash_get_current_hash(hh)
       IN  /\ hh' = g.self
           /\ ret' = Call("get_current_hash", g.result)
    /\ UNCHANGED <<debug_assertions, phase, hhb, twins, history>>

Algorithm ==
    /\ phase = "hashing"
    /\ ret' = Call("algorithm", <<HandshakeHash_algorithm(hh)>>)
    /\ UNCHANGED <<debug_assertions, phase, entities, twins, history>>

\* The synthetic message that stands for the transcript so far.
TranscriptSummary == build_handshake_hash(Digest(alg_given, Transcript))

IntoHrrBuffer ==
    /\ phase = "hashing"
    /\ nfed < MaxFed
    /\ phase' = "buffering"
    /\ hhb' = HandshakeHash_into_hrr_buffer(hh)
    /\ hh' = NoHash
    /\ twin_hhb' = HandshakeHash_into_hrr_buffer(twin_hh)
    /\ twin_hh' = NoHash
    /\ ret' = NoReturn
    /\ rollups' = rollups + 1
    /\ fed_buffer' = TranscriptSummary
    /\ fed_hash' = <<>>
    /\ taken' = FALSE
    /\ abandoned' = FALSE
    /\ UNCHANGED ever_abandoned
    /\ fed_enabled' = IF hh.client_auth_enabled THEN TranscriptSummary ELSE <<>>
    /\ since_take' = TranscriptSummary
    /\ nfed' = nfed + 1
    /\ UNCHANGED <<debug_assertions, alg_given>>

RollupForHrr ==
    /\ phase = "hashing"
    /\ nfed < MaxFed
    /\ hh' = HandshakeHash_rollup_for_hrr(hh)
    /\ twin_hh' = HandshakeHash_rollup_for_hrr(twin_hh)
    /\ ret' = NoReturn
    /\ rollups' = rollups + 1
    /\ fed_buffer' = <<>>
    /\ fed_hash' = TranscriptSummary
    /\ fed_enabled' = IF hh.client_auth_enabled THEN TranscriptSummary ELSE <<>>
    /\ since_take' = since_take \o TranscriptSummary
    /\ nfed' = nfed + 1
    /\ UNCHANGED <<debug_assertions, phase, hhb, twin_hhb, alg_given,
                   taken, abandoned, ever_abandoned>>

TakeHandshakeBuf ==
    /\ phase = "hashing"
    /\ LET t == HandshakeHash_take_handshake_buf(hh, debug_assertions)
       IN  /\ phase' = IF t.panicked THEN "panicked" ELSE phase
           /\ hh' = t.self
           /\ ret' = Call("take_handshake_buf", t.result)
           /\ since_take' = IF t.panicked THEN since_take ELSE <<>>
    /\ taken' = TRUE
    /\ UNCHANGED <<debug_assertions, hhb, twins, alg_given, fed_buffer,
                   fed_hash, nfed, rollups, abandoned, ever_abandoned,
                   fed_enabled>>

(***************************************************************************)
(* Retention operations on the twin                                        *)
(***************************************************************************)
TwinSetClientAuthEnabled ==
    /\ phase = "buffering"
    /\ twin_hhb' = HandshakeHashBuffer_set_client_auth_enabled(twin_hhb)
    /\ UNCHANGED <<debug_assertions, phase, entities, twin_hh, ret, history>>

TwinAbandonClientAuth ==
    /\ phase = "hashing"
    /\ twin_hh' = HandshakeHash_abandon_client_auth(twin_hh)
    /\ UNCHANGED <<debug_assertions, phase, entities, twin_hhb, ret, history>>

\* The twin takes its buffer only where the call returns.
TwinTakeHandshakeBuf ==
    /\ phase = "hashing"
    /\ LET t == HandshakeHash_take_handshake_buf(twin_hh, debug_assertions)
       IN  /\ ~t.panicked
           /\ twin_hh' = t.self
    /\ UNCHANGED <<debug_assertions, phase, entities, twin_hhb, ret, history>>

Next ==
    \/ SetClientAuthEnabled
    \/ \E m \in Messages : BufferAddMessage(m)
    \/ \E buf \in Slices : BufferUpdateRaw(buf)
    \/ \E hash \in Algorithms, extra \in Extras : BufferGetHashGiven(hash, extra)
    \/ \E alg \in Algorithms : StartHash(alg)
    \/ AbandonClientAuth
    \/ \E m \in Messages : AddMessage(m)
    \/ \E buf \in Slices : UpdateRaw(buf)
    \/ \E extra \in Extras : GetHashGiven(extra)
    \/ GetCurrentHash
    \/ Algorithm
    \/ IntoHrrBuffer
    \/ RollupForHrr
    \/ TakeHandshakeBuf
    \/ TwinSetClientAuthEnabled
    \/ TwinAbandonClientAuth
    \/ TwinTakeHandshakeBuf

Spec == Init /\ [][Next]_vars

(***************************************************************************)
(* Properties                                                              *)
(***************************************************************************)
Hashing == phase = "hashing"
Buffering == phase = "buffering"

\* C1: bytes fed to the HandshakeHashBuffer, then start_hash(alg), then
\* bytes fed to the HandshakeHash, with no rollup: get_current_hash() is
\* the digest under alg of everything fed before and after the
\* transition, in order.
C1_CurrentHashIsDigestOfAllBytesFed ==
    (rollups = 0 /\ Hashing) =>
        /\ HandshakeHash_get_current_hash(hh).result
               = Digest(alg_given, fed_buffer \o fed_hash)
        /\ ret.op = "get_current_hash"
               => ret.value = Digest(alg_given, fed_buffer \o fed_hash)

\* C1 witness: get_current_hash() has returned after "h" was fed before
\* start_hash and "w" after it.
C1_Witness ==
    /\ Hashing /\ rollups = 0
    /\ fed_buffer = <<"h">> /\ fed_hash = <<"w">>
    /\ ret = Call("get_current_hash", Digest("SHA256", <<"h", "w">>))

\* C2: retention never influences the digest: the exchange and its twin,
\* fed the same bytes, algorithm and rollups and differing only in their
\* retention operations, give the same hash at every point, for
\* get_current_hash() and for get_hash_given() with every extra.
C2_RetentionNeverInfluencesDigest ==
    /\ Hashing =>
        /\ HandshakeHash_get_current_hash(hh).result
               = HandshakeHash_get_current_hash(twin_hh).result
        /\ \A extra \in Extras :
               HandshakeHash_get_hash_given(hh, extra).result
                   = HandshakeHash_get_hash_given(twin_hh, extra).result
        /\ HandshakeHash_algorithm(hh) = HandshakeHash_algorithm(twin_hh)
    /\ Buffering =>
        \A hash \in Algorithms, extra \in Extras :
            HandshakeHashBuffer_get_hash_given(hhb, hash, extra).result
                = HandshakeHashBuffer_get_hash_given(twin_hhb, hash, extra).result

\* C2 witness: after bytes were fed on both sides of start_hash, one of
\* the two retains and holds bytes, the other does not.
C2_Witness ==
    /\ Hashing
    /\ fed_buffer # <<>> /\ fed_hash # <<>>
    /\ hh.client_auth_enabled # twin_hh.client_auth_enabled
    /\ hh.buffer # twin_hh.buffer

\* C3: retention enabled on the accumulator before start_hash and never
\* disabled, no take_handshake_buf and no rollup: the retained buffer is
\* the accumulator's pre-transition bytes followed by all bytes fed after
\* the transition.
C3_RetainedBufferIsAllBytesFed ==
    (Hashing /\ rollups = 0 /\ hh.client_auth_enabled /\ ~taken) =>
        hh.buffer = fed_buffer \o fed_hash

\* C3 witness: "h" before the transition, "w" after it, retention on.
C3_Witness ==
    /\ Hashing /\ rollups = 0 /\ hh.client_auth_enabled /\ ~taken
    /\ fed_buffer = <<"h">> /\ fed_hash = <<"w">>
    /\ hh.buffer = <<"h", "w">>

\* C4 as stated: the retained buffer, when non-empty, is the part of the
\* context's input that was fed while retention was enabled.
C4_BufferIsInputFedWhileEnabled ==
    (Hashing /\ hh.buffer # <<>>) => hh.buffer = fed_enabled

\* C4 as amended: the retained buffer, when non-empty, is everything that
\* was appended to the originating accumulator (whether or not retention
\* was already enabled) and to this object (the synthetic messages of
\* rollups included) since the accumulator was created or the buffer was
\* last taken, whichever came last.
C4_BufferIsAllAppendedSinceTake ==
    (Hashing /\ hh.buffer # <<>>) => hh.buffer = since_take

\* C4 witness: a non-empty retained buffer that differs from the input fed
\* while retention was enabled.
C4_Witness ==
    /\ Hashing
    /\ hh.buffer # <<>>
    /\ hh.buffer # fed_enabled
    /\ hh.buffer = since_take

\* C5 as stated: take_handshake_buf with retention disabled is a fatal
\* assertion failure: it never returns.
C5_TakeWhileDisabledIsFatal ==
    (ret.op = "take_handshake_buf" /\ ~hh.client_auth_enabled) =>
        phase = "panicked"

\* C5 as amended: take_handshake_buf with retention disabled is a fatal
\* assertion failure in a build with debug assertions; in a build
\* without them it returns the empty buffer and the HandshakeHash goes on.
C5_TakeWhileDisabledIsFatalInDebugBuilds ==
    (ret.op = "take_handshake_buf" /\ ~hh.client_auth_enabled) =>
        IF debug_assertions
        THEN phase = "panicked"
        ELSE Hashing /\ ret.value = <<>> /\ hh.buffer = <<>>

\* C5 witness: the assertion has failed.
C5_Witness ==
    /\ phase = "panicked"
    /\ ret.op = "take_handshake_buf"
    /\ ~hh.client_auth_enabled

\* C6: with retention enabled, take_handshake_buf returns the buffer as
\* it is at the call and leaves it empty; a second call with no update in
\* between returns the empty sequence; the digest context and the
\* retention flag are unchanged by either call.
C6_TakeReturnsBufferAndEmptiesIt ==
    [][ (TakeHandshakeBuf /\ hh.client_auth_enabled) =>
            /\ phase' = "hashing"
            /\ ret' = Call("take_handshake_buf", hh.buffer)
            /\ hh'.buffer = <<>>
            /\ hh'.ctx = hh.ctx
            /\ hh'.client_auth_enabled = hh.client_auth_enabled
            /\ (ret.op = "take_handshake_buf" => ret'.value = <<>>) ]_vars

\* C6 witness: take_handshake_buf has returned "hw", the buffer is empty
\* and the context still holds "hw".
C6_Witness ==
    /\ Hashing /\ hh.client_auth_enabled
    /\ ret = Call("take_handshake_buf", <<"h", "w">>)
    /\ hh.buffer = <<>>
    /\ hh.ctx.input = <<"h", "w">>

\* C7: after abandon_client_auth the retained buffer is empty in every
\* later state of that HandshakeHash, whatever is fed, peeked or rolled
\* up, and the digest still reflects all bytes fed before and after it.
C7_BufferStaysEmptyAfterAbandon ==
    (abandoned /\ phase # "buffering") =>
        /\ hh.buffer = <<>>
        /\ HandshakeHash_get_current_hash(hh).result
               = Digest(alg_given, Transcript)

\* C7 witness: "h" was fed with retention on, "w" after the abandon, and
\* get_current_hash() has returned the digest of "hw".
C7_Witness ==
    /\ Hashing /\ abandoned /\ rollups = 0
    /\ fed_enabled = <<"h">>
    /\ fed_buffer = <<"h">> /\ fed_hash = <<"w">>
    /\ hh.buffer = <<>>
    /\ ret = Call("get_current_hash", Digest("SHA256", <<"h", "w">>))

\* C8: add_message with a non-handshake message leaves the accumulator's
\* buffer and flag, and the HandshakeHash's context, flag and buffer, as
\* they were.
C8_NonHandshakeMessageChangesNothing ==
    [][ \A m \in Messages :
            m.payload # "Handshake" =>
                /\ BufferAddMessage(m) => (hhb' = hhb /\ phase' = phase)
                /\ AddMessage(m) => (hh' = hh /\ phase' = phase) ]_vars

\* C8 witness: the last call was add_message with a ChangeCipherSpec
\* message, and context and buffer hold "hw".
C8_Witness ==
    /\ Hashing /\ hh.client_auth_enabled
    /\ ret.op = "add_message" /\ ret.payload = "ChangeCipherSpec"
    /\ hh.buffer = <<"h", "w">>
    /\ hh.ctx.input = <<"h", "w">>

\* C9: get_hash_given(extra) returns the digest of the transcript followed
\* by extra, get_current_hash() equals get_hash_given(empty), and neither
\* changes context, flag or buffer: whatever was peeked, the current hash
\* is the digest of the transcript alone.
C9_PeekLeavesHashAsItWas ==
    /\ [](Hashing =>
            /\ HandshakeHash_get_current_hash(hh).result
                   = HandshakeHash_get_hash_given(hh, <<>>).result
            /\ HandshakeHash_get_current_hash(hh).result
                   = Digest(HandshakeHash_algorithm(hh), Transcript))
    /\ [][ /\ \A extra \in Extras :
                GetHashGiven(extra) =>
                    /\ ret'.value = Digest(HandshakeHash_algorithm(hh),
                                           Transcript \o extra)
                    /\ hh' = hh /\ phase' = phase
           /\ GetCurrentHash =>
                    /\ ret'.value = Digest(HandshakeHash_algorithm(hh),
                                           Transcript)
                    /\ hh' = hh /\ phase' = phase ]_vars

\* C9 witness: get_hash_given("x") has returned the digest of "hwx" and
\* the context still holds "hw".
C9_Witness ==
    /\ Hashing
    /\ ret = Call("get_hash_given", Digest("SHA256", <<"h", "w", "x">>))
    /\ hh.ctx.input = <<"h", "w">>

\* C10: HandshakeHashBuffer::get_hash_given(alg, extra) returns the digest
\* under alg of the buffer followed by extra and leaves buffer and flag as
\* they were; it equals what start_hash(alg) followed by
\* get_hash_given(extra) returns from the same accumulator.
C10_BufferPeekMatchesStartHash ==
    /\ [](Buffering =>
            \A alg \in Algorithms, extra \in Extras :
                HandshakeHashBuffer_get_hash_given(hhb, alg, extra).result
                    = HandshakeHash_get_hash_given(
                          HandshakeHashBuffer_start_hash(hhb, alg), extra).result)
    /\ [][ \A hash \in Algorithms, extra \in Extras :
                BufferGetHashGiven(hash, extra) =>
                    /\ ret'.value = Digest(hash, hhb.buffer \o extra)
                    /\ hhb' = hhb /\ phase' = phase ]_vars

\* C10 witness: get_hash_given(SHA384, "x") has returned the digest of
\* "hwx" and the accumulator still holds "hw".
C10_Witness ==
    /\ Buffering
    /\ ret = Call("get_hash_given", Digest("SHA384", <<"h", "w", "x">>))
    /\ hhb.buffer = <<"h", "w">>

\* C11: into_hrr_buffer consumes the HandshakeHash and returns an
\* accumulator whose buffer is exactly the synthetic message carrying the
\* digest of the input so far, with none of the retained bytes, and whose
\* flag is the HandshakeHash's flag.
C11_IntoHrrBufferHoldsOnlyTheSummary ==
    [][ IntoHrrBuffer =>
            /\ phase' = "buffering"
            /\ hh' = NoHash
            /\ hhb'.buffer = build_handshake_hash(
                   Digest(HandshakeHash_algorithm(hh), Transcript))
            /\ hhb'.client_auth_enabled = hh.client_auth_enabled ]_vars

\* C11 witness: the HandshakeHash retained "h"; the accumulator made from
\* it retains and holds the synthetic message alone.
C11_Witness ==
    /\ Buffering /\ rollups = 1
    /\ hhb.client_auth_enabled
    /\ fed_enabled = build_handshake_hash(Digest("SHA256", <<"h">>))
    /\ hhb.buffer = build_handshake_hash(Digest("SHA256", <<"h">>))

\* C12: the hash after rollup_for_hrr differs from the hash before it, and
\* the rollup gives equal hashes from equal contexts: the exchange and its
\* twin, which hold the same context, hold the same hash after it.
C12_RollupChangesHash ==
    [][ RollupForHrr =>
            /\ HandshakeHash_get_current_hash(hh').result
                   # HandshakeHash_get_current_hash(hh).result
            /\ twin_hh.ctx = hh.ctx
            /\ HandshakeHash_get_current_hash(twin_hh').result
                   = HandshakeHash_get_current_hash(hh').result ]_vars

\* C12 witness: get_current_hash() has returned after a rollup of "h".
C12_Witness ==
    /\ Hashing /\ rollups = 1
    /\ ret = Call("get_current_hash",
                  Digest("SHA256",
                         build_handshake_hash(Digest("SHA256", <<"h">>))))

\* C13: algorithm() is the algorithm given to start_hash in every state
\* of a HandshakeHash, also after rollup_for_hrr has replaced the context.
C13_AlgorithmIsFixed ==
    (phase # "buffering") =>
        /\ HandshakeHash_algorithm(hh) = alg_given
        /\ ret.op = "algorithm" => ret.value = <<alg_given>>

\* C13 witness: algorithm() has returned SHA384 after a rollup.
C13_Witness ==
    /\ Hashing /\ rollups = 1
    /\ alg_given = "SHA384"
    /\ ret = Call("algorithm", <<"SHA384">>)

\* C14: after rollup_for_hrr the context's input is the synthetic message
\* carrying the digest of the whole input before it, and nothing else;
\* bytes fed afterwards are hashed after that message.
C14_RollupRestartsWithSummary ==
    /\ [][ RollupForHrr =>
            /\ hh'.ctx.input = build_handshake_hash(
                   Digest(HandshakeHash_algorithm(hh), hh.ctx.input))
            /\ hh.ctx.input = Transcript
            /\ HandshakeHash_get_current_hash(hh').result
                   = Digest(alg_given,
                            build_handshake_hash(Digest(alg_given, Transcript)))
          ]_vars
    /\ [][ \A buf \in Slices :
            (UpdateRaw(buf) /\ rollups > 0) =>
                hh'.ctx.input = hh.ctx.input \o buf ]_vars
    /\ []((Hashing /\ rollups > 0 /\ fed_buffer = <<>>) =>
            /\ hh.ctx.input = fed_hash
            /\ Head(fed_hash) = "message_hash")

\* C14 witness: "w" was fed after a rollup and get_current_hash() has
\* returned the digest of the synthetic message followed by "w".
C14_Witness ==
    /\ Hashing /\ rollups = 1
    /\ hh.ctx.input
           = build_handshake_hash(Digest("SHA256", <<>>)) \o <<"w">>
    /\ ret = Call("get_current_hash",
                  Digest("SHA256",
                         build_handshake_hash(Digest("SHA256", <<>>))
                             \o <<"w">>))

\* C15: with retention enabled, after rollup_for_hrr the retained buffer
\* is a copy of the restarted transcript: it is the input of the new
\* context, which begins with the synthetic message.
C15_BufferRestartsWithRollup ==
    [][ (RollupForHrr /\ hh.client_auth_enabled) =>
            hh'.buffer = hh'.ctx.input ]_vars

\* C16: start_hash passes the flag on and treats the buffer by it: empty
\* if retention is off, the accumulator's whole buffer if it is on; the
\* context has been fed the whole buffer either way.
C16_StartHashKeepsBufferByFlag ==
    [][ \A alg \in Algorithms :
            StartHash(alg) =>
                /\ hh'.client_auth_enabled = hhb.client_auth_enabled
                /\ hh'.buffer = IF hhb.client_auth_enabled
                                THEN hhb.buffer ELSE <<>>
                /\ hh'.ctx = [algorithm |-> alg, input |-> hhb.buffer]
                /\ hhb.buffer = fed_buffer ]_vars

\* C16 witness: "h" was appended before set_client_auth_enabled, "w"
\* after it, and start_hash has carried "hw" over.
C16_Witness ==
    /\ Hashing /\ fed_hash = <<>>
    /\ hh.client_auth_enabled
    /\ fed_enabled = <<"w">>
    /\ hh.buffer = <<"h", "w">>
    /\ hh.ctx.input = <<"h", "w">>

\* Retention is on in the entity the exchange holds (a moved-out entity
\* has it off).
RetentionEnabled == hhb.client_auth_enabled \/ hh.client_auth_enabled

\* C17 as stated: once abandon_client_auth has been called, retention is
\* not enabled in any later state of the exchange, also not in an
\* accumulator made by into_hrr_buffer or a HandshakeHash started from it.
C17_RetentionNeverResumes ==
    ever_abandoned => ~RetentionEnabled

\* C17 as amended: once abandon_client_auth has been called on a
\* HandshakeHash, retention is off in every later state of that object
\* and in the accumulator into_hrr_buffer makes from it; only
\* set_client_auth_enabled, called on an accumulator, turns retention on.
C17_RetentionResumesOnlyOnAccumulator ==
    /\ []((abandoned /\ phase # "buffering") => ~hh.client_auth_enabled)
    /\ [][ (IntoHrrBuffer /\ abandoned) => ~hhb'.client_auth_enabled ]_vars
    /\ [][ (~RetentionEnabled /\ RetentionEnabled') =>
                (Buffering /\ SetClientAuthEnabled) ]_vars

\* C17 witness: after an abandon the HandshakeHash was turned into an
\* accumulator, retention was enabled on it, and the HandshakeHash started
\* from it retains.
C17_Witness ==
    /\ Hashing /\ rollups = 1
    /\ ever_abandoned /\ ~abandoned
    /\ hh.client_auth_enabled

\* C18: the exchange holds exactly one of the two entities; only
\* start_hash leads from buffering to hashing, and it consumes the
\* accumulator; rollup_for_hrr stays in hashing; only into_hrr_buffer
\* leads back, and it consumes the HandshakeHash.
C18_Lifecycle ==
    /\ [](Buffering => (hh = NoHash /\ twin_hh = NoHash))
    /\ [](phase # "buffering" =>
            (hhb = NoHashBuffer /\ twin_hhb = NoHashBuffer))
    /\ [][ (Buffering /\ phase' # "buffering") =>
                (phase' = "hashing" /\ \E alg \in Algorithms : StartHash(alg))
         ]_vars
    /\ [][ (Hashing /\ phase' = "buffering") => IntoHrrBuffer ]_vars
    /\ [][ RollupForHrr => (phase' = "hashing" /\ hhb' = NoHashBuffer) ]_vars

\* C18 witness: an accumulator made by into_hrr_buffer: both transitions
\* were taken, and no HandshakeHash is left.
C18_Witness ==
    /\ Buffering /\ rollups = 1
    /\ hh = NoHash
    /\ hhb.buffer = build_handshake_hash(Digest("SHA384", <<"w">>))

\* The updates that follow a retry, and the HandshakeHash after them.
PathUpdates == UNION { [1..n -> Slices] : n \in 0..MaxPathUpdates }

RECURSIVE Fed(_, _)
Fed(self, updates) ==
    IF updates = <<>> THEN self
    ELSE Fed(HandshakeHash_update_raw(self, Head(updates)), Tail(updates))

\* The two retry paths from a HandshakeHash.
RolledUp(self) == HandshakeHash_rollup_for_hrr(self)
Restarted(self) ==
    HandshakeHashBuffer_start_hash(HandshakeHash_into_hrr_buffer(self),
                                   HandshakeHash_algorithm(self))

\* C19: from any HandshakeHash, rollup_for_hrr followed by updates gives
\* the same current hash, algorithm and flag as into_hrr_buffer followed
\* by start_hash with the same algorithm and the same updates.
C19_RetryPathsAgree ==
    Hashing =>
        \A updates \in PathUpdates :
            LET a == Fed(RolledUp(hh), updates)
                b == Fed(Restarted(hh), updates)
            IN  /\ HandshakeHash_get_current_hash(a).result
                       = HandshakeHash_get_current_hash(b).result
                /\ HandshakeHash_algorithm(a) = HandshakeHash_algorithm(b)
                /\ a.client_auth_enabled = b.client_auth_enabled

\* C19 witness: a HandshakeHash that retains "hw": the two paths agree on
\* hash, algorithm and flag, and differ in what they retain.
C19_Witness ==
    /\ Hashing /\ hh.client_auth_enabled
    /\ hh.buffer = <<"h", "w">>
    /\ RolledUp(hh).ctx = Restarted(hh).ctx
    /\ RolledUp(hh).buffer # Restarted(hh).buffer

\* C20: a HandshakeHash with retention off holds no retained bytes.
C20_NoBufferWhileDisabled ==
    (phase # "buffering" /\ ~hh.client_auth_enabled) => hh.buffer = <<>>

\* C20 witness: retention was abandoned after "h" was retained; a rollup
\* followed, and the buffer is empty.
C20_Witness ==
    /\ Hashing /\ rollups = 1
    /\ abandoned /\ ~hh.client_auth_enabled
    /\ hh.ctx.input = build_handshake_hash(Digest("SHA256", <<"h">>))
    /\ hh.buffer = <<>>

====
